---- MODULE Spec2Model ----
(***************************************************************************)
(* A model of package leaf (github.com/creachadair/leaf): the File with    *)
(* its two forms of the data key, the log-structured Database with its     *)
(* derived table index, the rewind/revert slot, and Table handles.         *)
(***************************************************************************)
EXTENDS Integers, Sequences, FiniteSets, TLC

\* ---------------------------------------------------------------- bounds
MaxAppends == 2      \* entries a caller appends to the log between two New calls

\* ------------------------------------------------------- input universes
Names    == {"a", "b"}            \* table names
KeyNames == {"k"}                 \* keys within a table
Vals     == {1, 2}                \* JSON-encoded values (opaque byte strings)
NoVal    == 0                     \* a nil json.RawMessage
ZeroTime == -1                    \* time.Time{}.UnixMicro(): before every timeNow()
Times    == ZeroTime .. 1         \* arguments of Rewind
Stamps   == 0 .. 1                \* results of timeNow(), in microseconds

\* --------------------------------------------------- program constants
formatVersion == 1
opCreateTable == "create-table"
opDeleteTable == "delete-table"
opRenameTable == "rename-table"
opClearTable  == "clear-table"
opUpdateKey   == "update"
opDeleteKey   == "delete"

VARIABLES
  log,               \* Database.log
  dirty,             \* Database.dirty
  saved,             \* Database.saved (<<>> is nil)
  wasMod,            \* Database.wasMod
  tabs,              \* Database.tabs
  dataKeyEncrypted,  \* File.dataKeyEncrypted
  dataKeyPlain,      \* File.dataKeyPlain
  handles,           \* names of the Table values the caller holds on this Database
  buf,               \* the bytes.Buffer a WriteTo filled, until an Open reads it
  clk,               \* the caller's captured Time() with the Snapshot() taken then
  last,              \* the most recent call: operation, arguments, result
  pre,               \* log and dirty as they were before the most recent call
                     \* when it was a Rewind, kept through a Revert right after
  rewoundLen,        \* length the log had when the Rewind in effect returned
  appends,           \* entries appended to the log since New
  snap               \* the map a Snapshot() returned, as the caller holds it

vars == <<log, dirty, saved, wasMod, tabs, dataKeyEncrypted, dataKeyPlain,
          handles, buf, clk, last, pre, rewoundLen, appends, snap>>

\* ------------------------------------------------------------ data types
\* logEntry: absent strings are "", an absent C is NoVal, an absent TS is 0.
logEntry(op, a, b, c, ts) == [Op |-> op, A |-> a, B |-> b, C |-> c, TS |-> ts]

\* A Go map[string]*logEntry value: nil, or a map from keys to entries.
EmptyMap == [x \in {} |-> x]
NilTab   == [nil |-> TRUE,  m |-> EmptyMap]
EmptyTab == [nil |-> FALSE, m |-> EmptyMap]

\* Go map operations on functions with a finite domain.
MapPut(f, k, v) == [x \in (DOMAIN f) \cup {k} |-> IF x = k THEN v ELSE f[x]]
MapDel(f, k)    == [x \in (DOMAIN f) \ {k} |-> f[x]]
\* Indexing the outer map with an absent name yields the nil inner map.
TabAt(m, name)  == IF name \in DOMAIN m THEN m[name] ELSE NilTab

\* --------------------------------------------------------- tablesFromLog
applyEntry(m, e) ==
  CASE e.Op = opCreateTable ->
         IF TabAt(m, e.A).nil THEN MapPut(m, e.A, EmptyTab) ELSE m
    [] e.Op = opDeleteTable -> MapDel(m, e.A)
    [] e.Op = opRenameTable -> MapPut(MapDel(m, e.A), e.B, TabAt(m, e.A))
    [] e.Op = opClearTable ->
         IF TabAt(m, e.A).nil THEN m ELSE MapPut(m, e.A, EmptyTab)
    [] e.Op = opUpdateKey ->
         \* a write to a nil map panics; no log built by the methods has one
         IF TabAt(m, e.A).nil THEN m
         ELSE MapPut(m, e.A, [nil |-> FALSE, m |-> MapPut(m[e.A].m, e.B, e)])
    [] e.Op = opDeleteKey ->
         IF TabAt(m, e.A).nil THEN m
         ELSE MapPut(m, e.A, [nil |-> FALSE, m |-> MapDel(m[e.A].m, e.B)])
    [] OTHER -> m

RECURSIVE replayFrom(_, _)
replayFrom(m, s) ==
  IF s = <<>> THEN m ELSE replayFrom(applyEntry(m, Head(s)), Tail(s))

tablesFromLog(s) == replayFrom(EmptyMap, s)

\* ------------------------------------------------------------- snapshots
\* Database.Snapshot: table name -> key -> raw value (a nil table has no keys)
Snapshot(m) == [n \in DOMAIN m |-> [k \in DOMAIN m[n].m |-> m[n].m[k].C]]

\* Database.Time
Time(s) == IF Len(s) = 0 THEN ZeroTime ELSE s[Len(s)].TS

\* The Database fields, as a record.
DB == [log |-> log, dirty |-> dirty, saved |-> saved, wasMod |-> wasMod,
       tabs |-> tabs]

NoClk == [set |-> FALSE, used |-> FALSE, t |-> ZeroTime, n |-> 0,
          clean |-> TRUE, vis |-> EmptyMap]

Call(op, a, b, c, t, ret) ==
  [op |-> op, a |-> a, b |-> b, c |-> c, t |-> t, ret |-> ret]

\* The captured time is kept while the calls that follow are mutations.
ClkKept == IF clk.set /\ ~clk.used THEN clk ELSE NoClk


\* ----------------------------------------------------------------- codec
AccessKeys == {"K0", "K1"}        \* caller-provided keys of AccessKeyLen bytes
DataKeys   == {"D0", "D1"}        \* outcomes of cryptorand.Read for the data key
Nonces     == {0, 1}              \* outcomes of cryptorand.Read for a nonce
NoBytes    == [leaf |-> 0]        \* a buffer nothing was written to

\* AEAD sealing: the blob opens only under the key that sealed it.
encryptWithKey(key, data, nonce) == [k |-> key, n |-> nonce, p |-> data]
\* as decryptWithKey, without the check of the authentication tag
decryptWithKey_noAuth(key, blob) == [err |-> FALSE, p |-> blob.p]

decryptWithKey(key, blob) ==
  IF blob.k = key THEN [err |-> FALSE, p |-> blob.p]
                  ELSE [err |-> TRUE,  p |-> NoVal]

compress(data)   == [snappy |-> data]
decompress(data) == data.snappy
\* snappy.Decode returns an error, and decompress panics, on other bytes
validSnappy(data) == "snappy" \in DOMAIN data
BadSnappy         == [corrupt |-> "snappy"]

\* logEntry's JSON object: op always, the omitempty fields only when set.
marshalEntry(e) ==
  [f \in {"op"} \cup (IF e.A # "" THEN {"tab"} ELSE {})
                \cup (IF e.B # "" THEN {"key"} ELSE {})
                \cup (IF e.C # NoVal THEN {"val"} ELSE {})
                \cup (IF e.TS # 0 THEN {"clk"} ELSE {}) |->
     CASE f = "op"  -> e.Op
       [] f = "tab" -> e.A
       [] f = "key" -> e.B
       [] f = "val" -> e.C
       [] f = "clk" -> e.TS]

\* as unmarshalEntry, with the val field not decoded
unmarshalEntry_dropVal(w) ==
  logEntry(w["op"],
           IF "tab" \in DOMAIN w THEN w["tab"] ELSE "",
           IF "key" \in DOMAIN w THEN w["key"] ELSE "",
           NoVal,
           IF "clk" \in DOMAIN w THEN w["clk"] ELSE 0)

unmarshalEntry(w) ==
  logEntry(w["op"],
           IF "tab" \in DOMAIN w THEN w["tab"] ELSE "",
           IF "key" \in DOMAIN w THEN w["key"] ELSE "",
           IF "val" \in DOMAIN w THEN w["val"] ELSE NoVal,
           IF "clk" \in DOMAIN w THEN w["clk"] ELSE 0)

\* as MarshalJSON, leaving out the last entry of the log
MarshalJSON_short(s) == [log |-> [i \in 1..(Len(s) - 1) |-> marshalEntry(s[i])]]

\* Database.MarshalJSON / Database.UnmarshalJSON: the log only.
MarshalJSON(s)   == [log |-> [i \in 1..Len(s) |-> marshalEntry(s[i])]]
UnmarshalJSON(j) == [i \in 1..Len(j.log) |-> unmarshalEntry(j.log[i])]

\* json.Unmarshal into wireDB fails on bytes that are not JSON.
validJSON(data) == "log" \in DOMAIN data
BadJSON         == [corrupt |-> "json"]

\* wireFile and its JSON form.
wireFile(v, key, data) == [leaf |-> v, key |-> key, data |-> data]

\* --------------------------------------------------------------- Database
\* as addLog, with the entry put before the log in place of after it
addLog_front(d, e) == [d EXCEPT !.log = <<e>> \o d.log, !.dirty = TRUE]

\* as addLog, without d.dirty = true
addLog_noDirty(d, e) == [d EXCEPT !.log = Append(d.log, e)]

addLog(d, e) == [d EXCEPT !.log = Append(d.log, e), !.dirty = TRUE]

\* as newLogOf, with continue in place of break
RECURSIVE newLogOf_noBreak(_, _)
newLogOf_noBreak(s, ts) ==
  IF s = <<>> THEN <<>>
  ELSE IF Head(s).TS > ts THEN newLogOf_noBreak(Tail(s), ts)
       ELSE <<Head(s)>> \o newLogOf_noBreak(Tail(s), ts)

\* as newLogOf, with e.TS >= ts in place of e.TS > ts
RECURSIVE newLogOf_strict(_, _)
newLogOf_strict(s, ts) ==
  IF s = <<>> THEN <<>>
  ELSE IF Head(s).TS >= ts THEN <<>>
       ELSE <<Head(s)>> \o newLogOf_strict(Tail(s), ts)

\* The loop of Rewind: entries up to the first one later than ts.
RECURSIVE newLogOf(_, _)
newLogOf(s, ts) ==
  IF s = <<>> THEN <<>>
  ELSE IF Head(s).TS > ts THEN <<>>
       ELSE <<Head(s)>> \o newLogOf(Tail(s), ts)

\* as revertDB, without rebuilding tabs
revertDB_keepTabs(d) ==
  IF d.saved # <<>>
  THEN [d EXCEPT !.log = d.saved, !.dirty = d.wasMod, !.saved = <<>>]
  ELSE d

\* as revertDB, without restoring dirty from wasMod
revertDB_keepDirty(d) ==
  IF d.saved # <<>>
  THEN [d EXCEPT !.log = d.saved, !.saved = <<>>,
                 !.tabs = tablesFromLog(d.saved)]
  ELSE d

revertDB(d) ==
  IF d.saved # <<>>
  THEN [d EXCEPT !.log = d.saved, !.dirty = d.wasMod, !.saved = <<>>,
                 !.tabs = tablesFromLog(d.saved)]
  ELSE d

\* as rewindDB, without the Revert it starts with
rewindDB_noRevert(d, ts) ==
  LET newLog == newLogOf(d.log, ts)
  IN IF Len(newLog) < Len(d.log)
     THEN [ret |-> "true",
           db  |-> [log |-> newLog, dirty |-> TRUE, saved |-> d.log,
                    wasMod |-> d.dirty, tabs |-> tablesFromLog(newLog)]]
     ELSE [ret |-> "false", db |-> d]

\* as rewindDB, without moving dirty into wasMod
rewindDB_lostWasMod(d0, ts) ==
  LET d      == revertDB(d0)
      newLog == newLogOf(d.log, ts)
  IN IF Len(newLog) < Len(d.log)
     THEN [ret |-> "true",
           db  |-> [log |-> newLog, dirty |-> TRUE, saved |-> d.log,
                    wasMod |-> d.wasMod, tabs |-> tablesFromLog(newLog)]]
     ELSE [ret |-> "false", db |-> d]

\* as rewindDB, with isChanged := len(newLog) <= len(d.log)
rewindDB_alwaysChanged(d0, ts) ==
  LET d      == revertDB(d0)
      newLog == newLogOf(d.log, ts)
  IN IF Len(newLog) <= Len(d.log)
     THEN [ret |-> "true",
           db  |-> [log |-> newLog, dirty |-> TRUE, saved |-> d.log,
                    wasMod |-> d.dirty, tabs |-> tablesFromLog(newLog)]]
     ELSE [ret |-> "false", db |-> d]

\* as rewindDB, with log and saved assigned the other way round
rewindDB_swapped(d0, ts) ==
  LET d      == revertDB(d0)
      newLog == newLogOf(d.log, ts)
  IN IF Len(newLog) < Len(d.log)
     THEN [ret |-> "true",
           db  |-> [log |-> d.log, dirty |-> TRUE, saved |-> newLog,
                    wasMod |-> d.dirty, tabs |-> tablesFromLog(d.log)]]
     ELSE [ret |-> "false", db |-> d]

rewindDB(d0, ts) ==
  LET d      == revertDB(d0)
      newLog == newLogOf(d.log, ts)
  IN IF Len(newLog) < Len(d.log)
     THEN [ret |-> "true",
           db  |-> [log |-> newLog, dirty |-> TRUE, saved |-> d.log,
                    wasMod |-> d.dirty, tabs |-> tablesFromLog(newLog)]]
     ELSE [ret |-> "false", db |-> d]

\* The caller holds no snapshot.
NoSnap == [on |-> FALSE, m |-> EmptyMap, bytes |-> "copied"]

\* The map s after the caller's copy(s[name][key], val), or, when the map
\* has no such key, after its delete(s, name).
snapEdited(s, name, key, val) ==
  IF key \in DOMAIN s.m[name]
  THEN [s EXCEPT !.m[name][key] = val]
  ELSE [s EXCEPT !.m = MapDel(s.m, name)]

NoPre == [on |-> FALSE, ret |-> "", clean |-> TRUE, chain |-> FALSE,
          log |-> <<>>, dirty |-> FALSE]

\* Install the Database fields d and record the call c.
Becomes(d, c) ==
  /\ log' = d.log /\ dirty' = d.dirty /\ saved' = d.saved
  /\ wasMod' = d.wasMod /\ tabs' = d.tabs
  /\ last' = c
  /\ pre' = IF c.op = "Rewind"
            THEN [on |-> TRUE, ret |-> c.ret, clean |-> (saved = <<>>),
                  \* this Rewind comes right after a Rewind to the same or a
                  \* later time that was called in a Clean state
                  chain |-> (/\ last.op = "Rewind" /\ pre.on /\ pre.clean
                             /\ c.t <= last.t),
                  log |-> log, dirty |-> dirty]
            ELSE IF c.op = "Revert" /\ last.op = "Rewind" THEN pre ELSE NoPre
  /\ rewoundLen' = IF d.saved = <<>> THEN 0
                   ELSE IF c.op = "Rewind" THEN Len(d.log) ELSE rewoundLen
  \* the caller keeps the map of the latest Snapshot call
  /\ snap' = IF c.op = "Snapshot"
             THEN [on |-> TRUE, m |-> c.ret, bytes |-> c.a]
             ELSE IF c.op = "edit" THEN snapEdited(snap, c.a, c.b, c.c)
             ELSE snap

\* A call that makes at most one addLog call, within the budget; timeNow()
\* is read for the entry appended and not at all when none is.
Room(d, ts) ==
  /\ d.log = log => ts = 0
  /\ appends' = IF d.log = log THEN appends ELSE appends + 1
  /\ appends' <= MaxAppends

Init ==
  /\ log = <<>> /\ dirty = FALSE /\ saved = <<>> /\ wasMod = FALSE
  /\ tabs = tablesFromLog(<<>>)
  /\ dataKeyPlain = "D0"
  /\ dataKeyEncrypted = encryptWithKey("K0", "D0", 0)
  /\ handles = {}
  /\ buf = NoBytes
  /\ clk = NoClk
  /\ last = Call("New", "K0", "", NoVal, ZeroTime, "ok")
  /\ pre = NoPre
  /\ rewoundLen = 0
  /\ appends = 0
  /\ snap = NoSnap

\* as Table, without the test that the table is absent
Table_always(name, ts) ==
  LET d == addLog([DB EXCEPT !.tabs = MapPut(tabs, name, EmptyTab)],
                  logEntry(opCreateTable, name, "", NoVal, ts))
  IN /\ Room(d, ts)
     /\ Becomes(d, Call("Table", name, "", NoVal, ZeroTime, "ok"))
     /\ handles' = handles \cup {name}
     /\ clk' = ClkKept
     /\ UNCHANGED <<dataKeyEncrypted, dataKeyPlain, buf>>

\* Database.Table
Table(name, ts) ==
  LET d == IF name \notin DOMAIN tabs
           THEN addLog([DB EXCEPT !.tabs = MapPut(tabs, name, EmptyTab)],
                       logEntry(opCreateTable, name, "", NoVal, ts))
           ELSE DB
  IN /\ Room(d, ts)
     /\ Becomes(d, Call("Table", name, "", NoVal, ZeroTime, "ok"))
     /\ handles' = handles \cup {name}
     /\ clk' = ClkKept
     /\ UNCHANGED <<dataKeyEncrypted, dataKeyPlain, buf>>

\* Database.GetTable
GetTable(name) ==
  /\ Becomes(DB, Call("GetTable", name, "", NoVal, ZeroTime,
                      IF name \in DOMAIN tabs THEN "true" ELSE "false"))
  /\ handles' = IF name \in DOMAIN tabs THEN handles \cup {name} ELSE handles
  /\ clk' = ClkKept
  /\ UNCHANGED <<dataKeyEncrypted, dataKeyPlain, buf, appends>>

\* as DeleteTable, without delete(d.tabs, name)
DeleteTable_keep(name, ts) ==
  LET ok == name \in DOMAIN tabs
      d  == IF ok
            THEN addLog(DB, logEntry(opDeleteTable, name, "", NoVal, ts))
            ELSE DB
  IN /\ Room(d, ts)
     /\ Becomes(d, Call("DeleteTable", name, "", NoVal, ZeroTime,
                        IF ok THEN "true" ELSE "false"))
     /\ clk' = ClkKept
     /\ UNCHANGED <<dataKeyEncrypted, dataKeyPlain, buf, handles>>

\* Database.DeleteTable
DeleteTable(name, ts) ==
  LET ok == name \in DOMAIN tabs
      d  == IF ok
            THEN addLog([DB EXCEPT !.tabs = MapDel(tabs, name)],
                        logEntry(opDeleteTable, name, "", NoVal, ts))
            ELSE DB
  IN /\ Room(d, ts)
     /\ Becomes(d, Call("DeleteTable", name, "", NoVal, ZeroTime,
                        IF ok THEN "true" ELSE "false"))
     /\ clk' = ClkKept
     /\ UNCHANGED <<dataKeyEncrypted, dataKeyPlain, buf, handles>>

\* Database.Rewind
Rewind(when) ==
  LET r == rewindDB(DB, when)
  IN /\ Becomes(r.db, Call("Rewind", "", "", NoVal, when, r.ret))
     /\ clk' = IF clk.set /\ ~clk.used /\ clk.t = when
               THEN [clk EXCEPT !.used = TRUE] ELSE NoClk
     /\ UNCHANGED <<dataKeyEncrypted, dataKeyPlain, buf, handles, appends>>

\* Database.Revert
Revert ==
  /\ Becomes(revertDB(DB), Call("Revert", "", "", NoVal, ZeroTime, "ok"))
  /\ clk' = NoClk
  /\ UNCHANGED <<dataKeyEncrypted, dataKeyPlain, buf, handles, appends>>

\* Database.Time, with the Snapshot the caller takes alongside it
CaptureTime ==
  /\ Becomes(DB, Call("Time", "", "", NoVal, Time(log), "ok"))
  /\ clk' = [set |-> TRUE, used |-> FALSE, t |-> Time(log), n |-> Len(log),
             clean |-> (saved = <<>>), vis |-> Snapshot(tabs)]
  /\ UNCHANGED <<dataKeyEncrypted, dataKeyPlain, buf, handles, appends>>

\* ------------------------------------------------------------------ Table
\* Table.Set through a handle named h
Set(h, key, val, ts) ==
  LET tab   == TabAt(tabs, h)
      isOld == key \in DOMAIN tab.m
      e     == logEntry(opUpdateKey, h, key, val, ts)
      d     == IF tab.nil THEN DB   \* assignment to an entry in a nil map panics
               ELSE addLog([DB EXCEPT !.tabs = MapPut(tabs, h,
                              [nil |-> FALSE, m |-> MapPut(tab.m, key, e)])], e)
  IN /\ h \in handles
     /\ Room(d, ts)
     /\ Becomes(d, Call("Set", h, key, val, ZeroTime,
                        IF tab.nil THEN "panic"
                        ELSE IF isOld THEN "false" ELSE "true"))
     /\ clk' = ClkKept
     /\ UNCHANGED <<dataKeyEncrypted, dataKeyPlain, buf, handles>>

\* as Delete, without delete(tab, key)
Delete_keepKey(h, key, ts) ==
  LET tab == TabAt(tabs, h)
      ok  == key \in DOMAIN tab.m
      d   == IF ok
             THEN addLog(DB, logEntry(opDeleteKey, h, key, NoVal, ts))
             ELSE DB
  IN /\ h \in handles
     /\ Room(d, ts)
     /\ Becomes(d, Call("Delete", h, key, NoVal, ZeroTime,
                        IF ok THEN "true" ELSE "false"))
     /\ clk' = ClkKept
     /\ UNCHANGED <<dataKeyEncrypted, dataKeyPlain, buf, handles>>

\* Table.Delete
Delete(h, key, ts) ==
  LET tab == TabAt(tabs, h)
      ok  == key \in DOMAIN tab.m
      d   == IF ok
             THEN addLog([DB EXCEPT !.tabs = MapPut(tabs, h,
                             [nil |-> FALSE, m |-> MapDel(tab.m, key)])],
                         logEntry(opDeleteKey, h, key, NoVal, ts))
             ELSE DB
  IN /\ h \in handles
     /\ Room(d, ts)
     /\ Becomes(d, Call("Delete", h, key, NoVal, ZeroTime,
                        IF ok THEN "true" ELSE "false"))
     /\ clk' = ClkKept
     /\ UNCHANGED <<dataKeyEncrypted, dataKeyPlain, buf, handles>>

\* as Rename, with a table that is under newName left there
Rename_keepNew(h, newName, ts) ==
  LET d == IF h = newName THEN DB
           ELSE addLog([DB EXCEPT !.tabs =
                           IF newName \in DOMAIN tabs THEN MapDel(tabs, h)
                           ELSE MapDel(MapPut(tabs, newName, TabAt(tabs, h)),
                                       h)],
                       logEntry(opRenameTable, h, newName, NoVal, ts))
  IN /\ h \in handles
     /\ Room(d, ts)
     /\ Becomes(d, Call("Rename", h, newName, NoVal, ZeroTime, "ok"))
     /\ handles' = handles \cup {newName}
     /\ clk' = ClkKept
     /\ UNCHANGED <<dataKeyEncrypted, dataKeyPlain, buf>>

\* as Rename, without t.db.tabs[newName] = t.db.tabs[t.name]
Rename_noMove(h, newName, ts) ==
  LET d == IF h = newName THEN DB
           ELSE addLog([DB EXCEPT !.tabs = MapDel(tabs, h)],
                       logEntry(opRenameTable, h, newName, NoVal, ts))
  IN /\ h \in handles
     /\ Room(d, ts)
     /\ Becomes(d, Call("Rename", h, newName, NoVal, ZeroTime, "ok"))
     /\ handles' = handles \cup {newName}
     /\ clk' = ClkKept
     /\ UNCHANGED <<dataKeyEncrypted, dataKeyPlain, buf>>

\* as Rename, without delete(t.db.tabs, t.name)
Rename_keepOld(h, newName, ts) ==
  LET d == IF h = newName THEN DB
           ELSE addLog([DB EXCEPT !.tabs =
                           MapPut(tabs, newName, TabAt(tabs, h))],
                       logEntry(opRenameTable, h, newName, NoVal, ts))
  IN /\ h \in handles
     /\ Room(d, ts)
     /\ Becomes(d, Call("Rename", h, newName, NoVal, ZeroTime, "ok"))
     /\ handles' = handles \cup {newName}
     /\ clk' = ClkKept
     /\ UNCHANGED <<dataKeyEncrypted, dataKeyPlain, buf>>

\* Table.Rename
Rename(h, newName, ts) ==
  LET d == IF h = newName THEN DB
           ELSE addLog([DB EXCEPT !.tabs =
                           MapDel(MapPut(tabs, newName, TabAt(tabs, h)), h)],
                       logEntry(opRenameTable, h, newName, NoVal, ts))
  IN /\ h \in handles
     /\ Room(d, ts)
     /\ Becomes(d, Call("Rename", h, newName, NoVal, ZeroTime, "ok"))
     /\ handles' = handles \cup {newName}
     /\ clk' = ClkKept
     /\ UNCHANGED <<dataKeyEncrypted, dataKeyPlain, buf>>

\* as Clear, without the test len(tab) != 0
Clear_always(h, ts) ==
  LET tab == TabAt(tabs, h)
      d   == addLog([DB EXCEPT !.tabs = IF tab.nil THEN tabs
                                        ELSE MapPut(tabs, h, EmptyTab)],
                    logEntry(opClearTable, h, "", NoVal, ts))
  IN /\ h \in handles
     /\ Room(d, ts)
     /\ Becomes(d, Call("Clear", h, "", NoVal, ZeroTime, "ok"))
     /\ clk' = ClkKept
     /\ UNCHANGED <<dataKeyEncrypted, dataKeyPlain, buf, handles>>

\* Table.Clear
Clear(h, ts) ==
  LET tab == TabAt(tabs, h)
      d   == IF Cardinality(DOMAIN tab.m) # 0
             THEN addLog([DB EXCEPT !.tabs = MapPut(tabs, h, EmptyTab)],
                         logEntry(opClearTable, h, "", NoVal, ts))
             ELSE DB
  IN /\ h \in handles
     /\ Room(d, ts)
     /\ Becomes(d, Call("Clear", h, "", NoVal, ZeroTime, "ok"))
     /\ clk' = ClkKept
     /\ UNCHANGED <<dataKeyEncrypted, dataKeyPlain, buf, handles>>

\* A call that reads: the Database and the File stay as they are.
Reads(c) ==
  /\ Becomes(DB, c)
  /\ clk' = ClkKept
  /\ UNCHANGED <<dataKeyEncrypted, dataKeyPlain, buf, handles, appends>>

\* The types a caller asks a value as: val == nil, or a pointer to a T.
ValTypes == {"nil", "int", "string"}

\* unmarshalOrPanic: the values of Vals are JSON numbers
unmarshals(c, T) == T = "int" /\ c \in Vals

\* Table.Get, and the generic Get
Get(h, key, T) ==
  LET tab == TabAt(tabs, h)
      ok  == key \in DOMAIN tab.m
  IN /\ h \in handles
     /\ Reads(Call("Get", h, key, NoVal, ZeroTime,
                   IF ~ok THEN "false"
                   ELSE IF T # "nil" /\ ~unmarshals(tab.m[key].C, T)
                        THEN "panic" ELSE "true"))

\* Table.Keys; the slice is sorted, the model keeps the set of its elements
Keys(h) ==
  /\ h \in handles
  /\ Reads(Call("Keys", h, "", NoVal, ZeroTime, DOMAIN TabAt(tabs, h).m))

\* AsMap; a call that panics is recorded as such and returns no map
AsMap(h, T) ==
  LET tab    == TabAt(tabs, h)
      panics == \E k \in DOMAIN tab.m : ~unmarshals(tab.m[k].C, T)
  IN /\ h \in handles
     /\ T # "nil"
     /\ Reads(Call("AsMap", h, IF panics THEN "panic" ELSE "", NoVal,
                   ZeroTime,
                   IF panics THEN EmptyMap
                   ELSE [k \in DOMAIN tab.m |-> tab.m[k].C]))

\* Database.IsModified
IsModified ==
  Reads(Call("IsModified", "", "", NoVal, ZeroTime,
             IF dirty THEN "true" ELSE "false"))

\* Database.TableNames; the slice is sorted, the model keeps the set
TableNames == Reads(Call("TableNames", "", "", NoVal, ZeroTime, DOMAIN tabs))

\* as TableLen, with a missing table made before it is measured
TableLen_makes(h) ==
  /\ h \in handles
  /\ Becomes([DB EXCEPT !.tabs = IF TabAt(tabs, h).nil
                                 THEN MapPut(tabs, h, EmptyTab) ELSE tabs],
             Call("Len", h, "", NoVal, ZeroTime,
                  Cardinality(DOMAIN TabAt(tabs, h).m)))
  /\ clk' = ClkKept
  /\ UNCHANGED <<dataKeyEncrypted, dataKeyPlain, buf, handles, appends>>

\* Table.Len
TableLen(h) ==
  /\ h \in handles
  /\ Reads(Call("Len", h, "", NoVal, ZeroTime,
                Cardinality(DOMAIN TabAt(tabs, h).m)))

\* as TakeSnapshot, with m[key] = val.C in place of the copy
TakeSnapshot_shared ==
  Reads(Call("Snapshot", "shared", "", NoVal, ZeroTime, Snapshot(tabs)))

\* Database.Snapshot, called by a caller that keeps the map: the outer and
\* the inner maps are made anew and each value is a copy of the entry's
\* bytes
TakeSnapshot ==
  Reads(Call("Snapshot", "copied", "", NoVal, ZeroTime, Snapshot(tabs)))

\* d with the bytes of the value of entry e overwritten by val; the log and
\* the index point to the same entries.
overwritten(d, e, val) ==
  LET ow(x) == IF x = e THEN [x EXCEPT !.C = val] ELSE x
  IN [d EXCEPT !.log  = [i \in 1..Len(d.log) |-> ow(d.log[i])],
               !.tabs = [n \in DOMAIN d.tabs |->
                           [d.tabs[n] EXCEPT !.m =
                              [k \in DOMAIN d.tabs[n].m |->
                                 ow(d.tabs[n].m[k])]]]]

\* The caller changes the map it holds: it overwrites the bytes of the
\* value of key in table name, or deletes name from the map. Bytes that
\* are those of a log entry are overwritten in the Database as well.
SnapshotEdit(name, key, val) ==
  LET d == IF /\ snap.bytes = "shared"
              /\ key \in DOMAIN snap.m[name]
              /\ key \in DOMAIN TabAt(tabs, name).m
              /\ Snapshot(tabs)[name][key] = snap.m[name][key]
           THEN overwritten(DB, tabs[name].m[key], val)
           ELSE DB
  IN /\ snap.on /\ name \in DOMAIN snap.m
     /\ Becomes(d, Call("edit", name, key, val, ZeroTime, "ok"))
     /\ clk' = ClkKept
     /\ UNCHANGED <<dataKeyEncrypted, dataKeyPlain, buf, handles, appends>>

\* ------------------------------------------------------------------- File
Writers == {"buffer", "discard", "broken"}   \* io.Writer arguments of WriteTo

\* New
New(accessKey, dataKey, nonce) ==
  /\ Becomes([log |-> <<>>, dirty |-> FALSE, saved |-> <<>>, wasMod |-> FALSE,
              tabs |-> tablesFromLog(<<>>)],
             Call("New", accessKey, "", NoVal, ZeroTime, "ok"))
  /\ dataKeyPlain' = dataKey
  /\ dataKeyEncrypted' = encryptWithKey(accessKey, dataKey, nonce)
  /\ handles' = {}
  /\ clk' = NoClk
  /\ appends' = 0
  /\ UNCHANGED buf

\* as WriteTo, with the data key sealed again under a new nonce
WriteTo_rewrap(w, nonce) ==
  LET data          == MarshalJSON(log)
      dataEncrypted == encryptWithKey(dataKeyPlain, compress(data), nonce)
      rewrapped     == [dataKeyEncrypted EXCEPT !.n = nonce]
      wf            == wireFile(formatVersion, rewrapped, dataEncrypted)
      err           == (w = "broken")
  IN /\ Becomes(IF err THEN DB ELSE [DB EXCEPT !.dirty = FALSE],
                Call("WriteTo", w, "", NoVal, ZeroTime,
                     IF err THEN "error" ELSE "ok"))
     /\ buf' = IF w = "buffer" THEN wf ELSE buf
     /\ clk' = NoClk
     /\ dataKeyEncrypted' = rewrapped
     /\ UNCHANGED <<dataKeyPlain, handles, appends>>

\* as WriteTo, with f.db.dirty = false whatever w.Write returns
WriteTo_clearAlways(w, nonce) ==
  LET data          == MarshalJSON(log)
      dataEncrypted == encryptWithKey(dataKeyPlain, compress(data), nonce)
      wf            == wireFile(formatVersion, dataKeyEncrypted, dataEncrypted)
      err           == (w = "broken")
  IN /\ Becomes([DB EXCEPT !.dirty = FALSE],
                Call("WriteTo", w, "", NoVal, ZeroTime,
                     IF err THEN "error" ELSE "ok"))
     /\ buf' = IF w = "buffer" THEN wf ELSE buf
     /\ clk' = NoClk
     /\ UNCHANGED <<dataKeyEncrypted, dataKeyPlain, handles, appends>>

\* File.WriteTo; a "buffer" writer is a fresh bytes.Buffer the caller keeps
WriteTo(w, nonce) ==
  LET data          == MarshalJSON(log)
      dataEncrypted == encryptWithKey(dataKeyPlain, compress(data), nonce)
      wf            == wireFile(formatVersion, dataKeyEncrypted, dataEncrypted)
      err           == (w = "broken")
  IN /\ Becomes(IF err THEN DB ELSE [DB EXCEPT !.dirty = FALSE],
                Call("WriteTo", w, "", NoVal, ZeroTime,
                     IF err THEN "error" ELSE "ok"))
     /\ buf' = IF w = "buffer" THEN wf ELSE buf
     /\ clk' = NoClk
     /\ UNCHANGED <<dataKeyEncrypted, dataKeyPlain, handles, appends>>

\* The bytes stored by an earlier session of a File made under access key K0
\* with data key D0, or what became of them: a data blob sealed under key dk
\* that holds payload, in an envelope of version v.
storedFile(v, dk, payload) ==
  wireFile(v, encryptWithKey("K0", "D0", 0), encryptWithKey(dk, payload, 0))

StoredFiles == {
  \* a log with an operation this version of the package does not know
  storedFile(formatVersion, "D0", compress(MarshalJSON(
    <<logEntry(opCreateTable, "a", "", NoVal, 0),
      logEntry("merge-table", "a", "b", NoVal, 1)>>))),
  \* the log of Table("a"); DeleteTable("a"); Rename("b") through the handle
  storedFile(formatVersion, "D0", compress(MarshalJSON(
    <<logEntry(opCreateTable, "a", "", NoVal, 0),
      logEntry(opDeleteTable, "a", "", NoVal, 0),
      logEntry(opRenameTable, "a", "b", NoVal, 0)>>))),
  \* a data blob that does not open under the data key
  storedFile(formatVersion, "D1", compress(MarshalJSON(<<>>))),
  \* a payload that is not snappy, and one that is not JSON
  storedFile(formatVersion, "D0", BadSnappy),
  storedFile(formatVersion, "D0", compress(BadJSON)),
  \* an envelope of another format version
  storedFile(formatVersion + 1, "D0", compress(MarshalJSON(<<>>))) }

\* The caller, before it does anything else with its File, takes stored
\* bytes as the io.Reader of the next Open.
Stored(bits) ==
  /\ buf = NoBytes /\ appends = 0 /\ handles = {}
  /\ buf' = bits
  /\ UNCHANGED <<log, dirty, saved, wasMod, tabs, dataKeyEncrypted,
                 dataKeyPlain, handles, clk, last, pre, rewoundLen, appends,
                 snap>>

Zeroed == "zero"     \* a key buffer after clear(dataKey)

\* as Open, decoding into the Database the caller has in place of a new one
Open_intoOld(accessKey) ==
  LET wf      == buf
      dataKey == decryptWithKey(accessKey, wf.key)
      payload == decryptWithKey(dataKey.p, wf.data)
      dblog   == UnmarshalJSON(decompress(payload.p))
      ret     == IF wf = NoBytes THEN "decode file"
                 ELSE IF wf.leaf # formatVersion THEN "version mismatch"
                 ELSE IF dataKey.err THEN "decrypt data key"
                 ELSE IF payload.err THEN "decrypt data"
                 ELSE IF ~validSnappy(payload.p) THEN "panic"
                 ELSE IF ~validJSON(decompress(payload.p)) THEN "decode data"
                 ELSE "ok"
      keyBuf  == IF ret \in {"decode file", "version mismatch",
                             "decrypt data key"} THEN ""
                 ELSE IF ret = "decode data" THEN Zeroed
                 ELSE dataKey.p
  IN /\ buf' = NoBytes
     /\ IF ret = "ok"
        THEN /\ Becomes([log |-> dblog, dirty |-> dirty, saved |-> saved,
                         wasMod |-> wasMod, tabs |-> tablesFromLog(dblog)],
                        Call("Open", accessKey, keyBuf, NoVal, ZeroTime, ret))
             /\ dataKeyEncrypted' = wf.key
             /\ dataKeyPlain' = dataKey.p
             /\ handles' = {}
             /\ clk' = NoClk
        ELSE /\ Becomes(DB, Call("Open", accessKey, keyBuf, NoVal, ZeroTime,
                             ret))
             /\ UNCHANGED <<dataKeyEncrypted, dataKeyPlain, handles, clk>>
     /\ UNCHANGED appends

\* Open reads buf to its end; on success the caller goes on with the File
\* it returns, on failure with the File it had. The call is recorded with
\* what Open's dataKey buffer holds when Open is left ("" when none was made).
Open(accessKey) ==
  LET wf      == buf
      dataKey == decryptWithKey(accessKey, wf.key)
      payload == decryptWithKey(dataKey.p, wf.data)
      dblog   == UnmarshalJSON(decompress(payload.p))
      ret     == IF wf = NoBytes THEN "decode file"
                 ELSE IF wf.leaf # formatVersion THEN "version mismatch"
                 ELSE IF dataKey.err THEN "decrypt data key"
                 ELSE IF payload.err THEN "decrypt data"
                 ELSE IF ~validSnappy(payload.p) THEN "panic"
                 ELSE IF ~validJSON(decompress(payload.p)) THEN "decode data"
                 ELSE "ok"
      keyBuf  == IF ret \in {"decode file", "version mismatch",
                             "decrypt data key"} THEN ""
                 ELSE IF ret = "decode data" THEN Zeroed
                 ELSE dataKey.p
  IN /\ buf' = NoBytes
     /\ IF ret = "ok"
        THEN /\ Becomes([log |-> dblog, dirty |-> FALSE, saved |-> <<>>,
                         wasMod |-> FALSE, tabs |-> tablesFromLog(dblog)],
                        Call("Open", accessKey, keyBuf, NoVal, ZeroTime, ret))
             /\ dataKeyEncrypted' = wf.key
             /\ dataKeyPlain' = dataKey.p
             /\ handles' = {}
             /\ clk' = NoClk
        ELSE /\ Becomes(DB, Call("Open", accessKey, keyBuf, NoVal, ZeroTime,
                             ret))
             /\ UNCHANGED <<dataKeyEncrypted, dataKeyPlain, handles, clk>>
     /\ UNCHANGED appends

\* ---------------------------------------------------------- specifications
Mutate ==
  \/ \E n \in Names, ts \in Stamps : Table(n, ts)
  \/ \E n \in Names, ts \in Stamps : DeleteTable(n, ts)
  \/ \E h \in Names, k \in KeyNames, v \in Vals, ts \in Stamps : Set(h, k, v, ts)
  \/ \E h \in Names, k \in KeyNames, ts \in Stamps : Delete(h, k, ts)
  \/ \E h \in Names, n \in Names, ts \in Stamps : Rename(h, n, ts)
  \/ \E h \in Names, ts \in Stamps : Clear(h, ts)

\* One File in memory: mutations, rewinds and saves to a writer whose bytes
\* are not read back.
Next ==
  \/ Mutate
  \/ \E t \in Times : Rewind(t)
  \/ Revert
  \/ \E n \in Nonces : WriteTo("discard", n)

Spec == Init /\ [][Next]_vars

\* One File in memory whose caller also looks tables up and captures Time()
\* to rewind to it later.
NextTime ==
  \/ Mutate
  \/ \E n \in Names : GetTable(n)
  \/ \E t \in Times : Rewind(t)
  \/ Revert
  \/ CaptureTime

SpecTime == Init /\ [][NextTime]_vars

\* Save and reopen: a File made under access key K0 is built, written to a
\* buffer, and the buffer is opened, with K0 or with another access key,
\* before the caller goes on.
NextFile ==
  \/ buf = NoBytes /\ Mutate
  \/ buf = NoBytes /\ \E t \in Times : Rewind(t)
  \/ buf = NoBytes /\ Revert
  \/ buf = NoBytes /\ New("K0", "D0", 0)
  \/ \E w \in Writers \ {"discard"}, n \in Nonces : WriteTo(w, n)
  \/ \E ak \in AccessKeys : Open(ak)

SpecFile == Init /\ [][NextFile]_vars

\* Open of stored bytes: a caller with a File under K0 opens bytes stored
\* earlier, with K0 or another access key, and goes on with the File it has
\* then: it looks tables up, creates them and sets keys.
NextOpen ==
  \/ buf = NoBytes /\ \E n \in Names : GetTable(n)
  \/ buf = NoBytes /\ \E n \in Names, ts \in Stamps : Table(n, ts)
  \/ buf = NoBytes /\ \E h \in Names, k \in KeyNames, v \in Vals, ts \in Stamps :
                         Set(h, k, v, ts)
  \/ \E bits \in StoredFiles : Stored(bits)
  \/ \E ak \in AccessKeys : Open(ak)

SpecOpen == Init /\ [][NextOpen]_vars

\* The bytes an earlier session stored of a database with content: table a
\* with key k, and tables a, b and c each with key k; no call of the model
\* names c.
StoredTables == {
  storedFile(formatVersion, "D0", compress(MarshalJSON(
    <<logEntry(opCreateTable, "a", "", NoVal, 0),
      logEntry(opUpdateKey, "a", "k", 1, 0)>>))),
  storedFile(formatVersion, "D0", compress(MarshalJSON(
    <<logEntry(opCreateTable, "a", "", NoVal, 0),
      logEntry(opUpdateKey, "a", "k", 1, 0),
      logEntry(opCreateTable, "b", "", NoVal, 1),
      logEntry(opUpdateKey, "b", "k", 2, 1),
      logEntry(opCreateTable, "c", "", NoVal, 1),
      logEntry(opUpdateKey, "c", "k", 2, 1)>>))) }

\* Edit a stored database: the caller opens stored bytes with K0, looks
\* tables up, changes them through the handles and reads keys back.
NextEdit ==
  \/ buf = NoBytes /\ Mutate
  \/ buf = NoBytes /\ \E n \in Names : GetTable(n)
  \/ buf = NoBytes /\ \E h \in Names, k \in KeyNames, T \in ValTypes : Get(h, k, T)
  \/ buf = NoBytes /\ \E h \in Names : TableLen(h)
  \/ \E bits \in StoredTables : Stored(bits)
  \/ Open("K0")

SpecEdit == Init /\ [][NextEdit]_vars

\* Files under several keys: the caller makes Files with the access keys and
\* the data keys there are, adds tables, rewinds, saves to any writer and
\* opens what a save left in the buffer.
NextKey ==
  \/ buf = NoBytes /\ \E ak \in AccessKeys, dk \in DataKeys, n \in Nonces :
                         New(ak, dk, n)
  \/ buf = NoBytes /\ \E n \in Names, ts \in Stamps : Table(n, ts)
  \/ buf = NoBytes /\ \E t \in Times : Rewind(t)
  \/ \E w \in Writers, n \in Nonces : WriteTo(w, n)
  \/ \E ak \in AccessKeys : Open(ak)

SpecKey == Init /\ [][NextKey]_vars

\* A caller that keeps a snapshot: it changes the database, rewinds and
\* reverts it, takes a snapshot and changes the map it got.
NextSnap ==
  \/ Mutate
  \/ \E t \in Times : Rewind(t)
  \/ Revert
  \/ TakeSnapshot
  \/ \E n \in Names, k \in KeyNames, v \in Vals : SnapshotEdit(n, k, v)

SpecSnap == Init /\ [][NextSnap]_vars

\* A caller that reads: it makes tables, sets keys, deletes and renames
\* tables, rewinds and reverts, and calls every reading method, through the
\* handles it has kept as well; it calls Time and Snapshot together.
NextRead ==
  \/ \E n \in Names, ts \in Stamps : Table(n, ts)
  \/ \E n \in Names, ts \in Stamps : DeleteTable(n, ts)
  \/ \E h \in Names, k \in KeyNames, v \in Vals, ts \in Stamps : Set(h, k, v, ts)
  \/ \E h \in Names, n \in Names, ts \in Stamps : Rename(h, n, ts)
  \/ \E t \in Times : Rewind(t)
  \/ Revert
  \/ IsModified
  \/ TableNames
  \/ \E n \in Names : GetTable(n)
  \/ CaptureTime
  \/ \E h \in Names, k \in KeyNames, T \in ValTypes : Get(h, k, T)
  \/ \E h \in Names : Keys(h)
  \/ \E h \in Names, T \in ValTypes : AsMap(h, T)
  \/ \E h \in Names : TableLen(h)

SpecRead == Init /\ [][NextRead]_vars

\* ------------------------------------------------------------- properties
IsPrefix(s, t)     == Len(s) <= Len(t) /\ SubSeq(t, 1, Len(s)) = s
ProperPrefix(s, t) == IsPrefix(s, t) /\ Len(s) < Len(t)

\* The entries of s with TS <= ts, in their order.
RECURSIVE EntriesUpTo(_, _)
EntriesUpTo(s, ts) ==
  IF s = <<>> THEN <<>>
  ELSE (IF Head(s).TS <= ts THEN <<Head(s)>> ELSE <<>>) \o EntriesUpTo(Tail(s), ts)

\* The longest prefix of s all of whose entries have TS <= ts.
LongestPrefixUpTo(s, ts) ==
  LET n == CHOOSE n \in 0..Len(s) :
             /\ \A i \in 1..n : s[i].TS <= ts
             /\ n < Len(s) => s[n + 1].TS > ts
  IN SubSeq(s, 1, n)

Nondecreasing(s) == \A i \in 1..Len(s), j \in 1..Len(s) : i < j => s[i].TS <= s[j].TS

\* This step leaves every field of the Database as it was.
SameDB == UNCHANGED <<log, dirty, saved, wasMod, tabs>>

C2_RoundTrip ==
  [][(last'.op = "Open" /\ buf # NoBytes /\ last'.a = buf.key.k)
       => (last'.ret = "ok" /\ log' = log /\ tabs' = tabs)]_vars

\* a reopened File whose log has an update entry and an entry with TS 0
C2_Witness ==
  /\ last.op = "Open" /\ last.ret = "ok"
  /\ \E i \in 1..Len(log) : log[i].Op = opUpdateKey
  /\ \E i \in 1..Len(log) : log[i].TS = 0

\* C3: an Open with an access key other than the one the written File was
\* made with fails to decrypt the data key and yields no File: the caller's
\* File is the one it had.
C3_WrongKey ==
  [][(last'.op = "Open" /\ buf # NoBytes /\ last'.a # buf.key.k)
       => (/\ last'.ret = "decrypt data key"
           /\ UNCHANGED <<log, dirty, saved, wasMod, tabs,
                          dataKeyEncrypted, dataKeyPlain>>)]_vars

C3_Witness ==
  /\ last.op = "Open" /\ last.ret = "decrypt data key" /\ Len(log) > 0

\* C4 as claimed: from every state, Rewind(t) then Revert() leaves the log and
\* the dirty flag the database had before the Rewind.
C4_Original ==
  (last.op = "Revert" /\ pre.on) => (log = pre.log /\ dirty = pre.dirty)

\* C4 as amended: from every Clean state, Rewind(t) then Revert() leaves
\* the log and the dirty flag the database had before the Rewind.
C4_RewindRevert ==
  (last.op = "Revert" /\ pre.on /\ pre.clean)
    => (log = pre.log /\ dirty = pre.dirty)

\* a Revert right after a Rewind that cut the log of a Clean, saved database
C4_Witness ==
  /\ last.op = "Revert" /\ pre.on /\ pre.clean
  /\ pre.ret = "true" /\ ~pre.dirty /\ Len(log) > 0

\* This step is a Rewind to the captured time, with only mutations between.
RewindToCapture == clk.set /\ ~clk.used /\ last'.op = "Rewind" /\ last'.t = clk.t

\* C5 as claimed: Rewind(t), for t a Time() captured when the log had entries
\* and with only mutations, one of them at least appending, since, shows the
\* tables as they were at the capture and leaves the database modified.
C5_Original ==
  [][(RewindToCapture /\ clk.n > 0 /\ Len(log) > clk.n)
       => (Snapshot(tabs') = clk.vis /\ dirty')]_vars

\* Every entry of s present at the capture has TS <= t, every later one TS > t.
Separated(s) ==
  \A i \in 1..Len(s) : /\ i <= clk.n => s[i].TS <= clk.t
                       /\ i > clk.n => s[i].TS > clk.t

\* C5 as amended: if t was captured in a Clean state, the entries then in the
\* log have TS <= t and the entries appended since have TS > t, Rewind(t)
\* shows the tables as they were at the capture; if an entry was appended
\* since, Rewind returns true and the database is modified.
C5_RewindToCapture ==
  [][(RewindToCapture /\ clk.clean /\ Separated(log))
       => /\ Snapshot(tabs') = clk.vis
          /\ Len(log) > clk.n => (last'.ret = "true" /\ dirty')]_vars

\* after such a Rewind, which cut off what was appended since the capture
C5_Witness ==
  /\ last.op = "Rewind" /\ last.ret = "true"
  /\ clk.set /\ clk.used /\ clk.clean /\ clk.n > 0
  /\ Len(saved) > clk.n /\ Separated(saved)

\* C6 as claimed: Rewind(t) on a Clean database makes the log the entries
\* with TS <= t, in their order.
C6_Original ==
  [][(last'.op = "Rewind" /\ saved = <<>>)
       => log' = EntriesUpTo(log, last'.t)]_vars

\* C6 as amended: Rewind(t) on a Clean database makes the log the longest
\* prefix of the log whose entries all have TS <= t; these are all the
\* entries with TS <= t when the timestamps in the log never decrease.
C6_RewindSelects ==
  [][(last'.op = "Rewind" /\ saved = <<>>)
       => /\ log' = LongestPrefixUpTo(log, last'.t)
          /\ Nondecreasing(log) => log' = EntriesUpTo(log, last'.t)]_vars

\* after a Rewind of a Clean log in which an entry with TS <= t follows a
\* later one
C6_Witness ==
  /\ last.op = "Rewind" /\ last.ret = "true" /\ pre.clean
  /\ \E i \in 1..Len(saved), j \in 1..Len(saved) :
        i < j /\ saved[i].TS > last.t /\ saved[j].TS <= last.t

C8_Original ==
  [][(last'.op = "Rewind" /\ \A i \in 1..Len(log) : log[i].TS <= last'.t)
       => (last'.ret = "false" /\ SameDB)]_vars

\* C8 as amended: in every Clean state, Rewind to a time not earlier than
\* any entry's TS (or on an empty log) returns false and changes nothing.
C8_RewindNoop ==
  [][(/\ last'.op = "Rewind" /\ saved = <<>>
      /\ \A i \in 1..Len(log) : log[i].TS <= last'.t)
       => (last'.ret = "false" /\ SameDB)]_vars

\* after a Rewind of a Clean, modified, non-empty log to the TS of its last
\* entry, no entry being later
C8_Witness ==
  /\ last.op = "Rewind" /\ last.ret = "false" /\ pre.clean /\ dirty
  /\ Len(log) > 0 /\ last.t = Time(log)
  /\ \A i \in 1..Len(log) : log[i].TS <= last.t

\* C9 as claimed: Rewind returns true exactly when the tables seen through
\* the index changed, and a Rewind that changed them leaves the database
\* modified.
C9_Original ==
  [][last'.op = "Rewind" =>
       /\ last'.ret = "true" <=> Snapshot(tabs') # Snapshot(tabs)
       /\ Snapshot(tabs') # Snapshot(tabs) => dirty']_vars

\* C10 as claimed: whenever saved is non-empty the log is a proper prefix of
\* saved.
C10_Original == saved # <<>> => ProperPrefix(log, saved)

\* C10 as amended: whenever saved is non-empty, the entries the log had when
\* the Rewind returned are a proper prefix of saved and the log is those
\* entries followed by the ones appended since; until such an append the log
\* is a proper prefix of saved.
C10_RewoundPrefix ==
  saved # <<>> =>
    /\ rewoundLen <= Len(log) /\ rewoundLen < Len(saved)
    /\ SubSeq(log, 1, rewoundLen) = SubSeq(saved, 1, rewoundLen)
    /\ Len(log) = rewoundLen => ProperPrefix(log, saved)
    /\ last.op = "Rewind" => Len(log) = rewoundLen

\* a rewound database mutated after the Rewind
C10_Witness == saved # <<>> /\ Len(log) > rewoundLen

\* C11 as claimed: whenever saved is non-empty, dirty is true.
C11_Original == saved # <<>> => dirty

\* C11 as amended: a rewound database (saved non-empty) is not dirty only
\* after a successful WriteTo made while it was rewound, and for as long as
\* no call changes the log after that WriteTo.
C11_RewoundDirty ==
  [][(saved' # <<>> /\ ~dirty') =>
       \/ last'.op = "WriteTo" /\ last'.ret = "ok" /\ saved # <<>>
       \/ saved # <<>> /\ ~dirty /\ log' = log /\ saved' = saved]_vars

\* a rewound database just written, and so not dirty
C11_Witness ==
  saved # <<>> /\ ~dirty /\ last.op = "WriteTo" /\ last.ret = "ok"

\* C12 as claimed, for a Revert right after the Rewind: Revert on a Rewound
\* database leaves the log and the dirty flag the database had immediately
\* before the most recent Rewind that returned true, clears saved and
\* rebuilds the index; Revert on a Clean database changes nothing.
C12_Original ==
  [][(last'.op = "Revert" /\ (saved # <<>> => last.op = "Rewind")) =>
       IF saved # <<>>
       THEN /\ log' = pre.log /\ dirty' = pre.dirty
            /\ saved' = <<>> /\ tabs' = tablesFromLog(log')
       ELSE SameDB]_vars

\* C12 as amended: Revert on a Rewound database leaves the log held in
\* saved and the dirty flag held in wasMod, clears saved and rebuilds the
\* index; no call between a Rewind and the next Rewind or Revert changes
\* saved or wasMod, and right after a Rewind called in a Clean state they are
\* the log and the dirty flag of immediately before that Rewind. Revert on a
\* Clean database changes nothing.
C12_Revert ==
  [][/\ last'.op = "Revert" =>
          IF saved # <<>>
          THEN /\ log' = saved /\ dirty' = wasMod /\ wasMod' = wasMod
               /\ saved' = <<>> /\ tabs' = tablesFromLog(saved)
               /\ (last.op = "Rewind" /\ pre.clean)
                    => (log' = pre.log /\ dirty' = pre.dirty)
          ELSE SameDB
     /\ (saved # <<>> /\ last'.op \notin {"Rewind", "Revert"})
          => UNCHANGED <<saved, wasMod>>
     /\ (last'.op = "Rewind" /\ last'.ret = "true" /\ saved = <<>>)
          => (saved' = log /\ wasMod' = dirty)]_vars

\* after a Revert that dropped an entry appended while the database was
\* rewound
C12_Witness ==
  /\ last.op = "Revert" /\ saved = <<>>
  /\ Len(log) > 0 /\ appends > Len(log)

\* C13: from a Clean state, Rewind(t1) followed at once by Rewind(t2) with
\* t2 <= t1 returns what a single Rewind(t2) from that Clean state returns
\* and leaves the log, saved, wasMod, dirty and tabs it leaves. When the first
\* Rewind returned true the Clean state's wasMod is whichever value w.
C13_RewindTwice ==
  [][(/\ last.op = "Rewind" /\ pre.on /\ pre.clean
      /\ last'.op = "Rewind" /\ last'.t <= last.t) =>
       \A w \in (IF last.ret = "false" THEN {wasMod} ELSE BOOLEAN) :
         LET r == rewindDB([log |-> pre.log, dirty |-> pre.dirty,
                            saved |-> <<>>, wasMod |-> w,
                            tabs |-> tablesFromLog(pre.log)], last'.t)
         IN /\ last'.ret = r.ret
            /\ log' = r.db.log /\ saved' = r.db.saved
            /\ wasMod' = r.db.wasMod /\ dirty' = r.db.dirty
            /\ tabs' = r.db.tabs]_vars

\* after the second of two such Rewinds, which cut the log further than the
\* first had
C13_Witness ==
  /\ last.op = "Rewind" /\ last.ret = "true"
  /\ pre.chain /\ ~pre.clean /\ Len(log) < Len(pre.log)

\* C14 as claimed, by count: the log a successful WriteTo writes has every
\* entry appended since the File was created, so at least as many entries as
\* were appended.
C14_Original ==
  [][(last'.op = "WriteTo" /\ last'.ret = "ok") => Len(log) >= appends]_vars

\* C14 as amended: a successful WriteTo writes the whole current log and
\* leaves it as it is; every call other than Rewind and Revert keeps the log
\* as a prefix of the log it leaves, so that a log holding every entry
\* appended since New still holds every one after such a call.
C14_WrittenLog ==
  [][/\ (last'.op = "WriteTo" /\ last'.a = "buffer" /\ last'.ret = "ok") =>
          /\ log' = log
          /\ UnmarshalJSON(decompress(
                decryptWithKey(dataKeyPlain, buf'.data).p)) = log
     /\ last'.op \notin {"Rewind", "Revert", "New"} =>
          /\ IsPrefix(log, log')
          /\ Len(log) = appends => Len(log') = appends']_vars

\* a buffer just written with a log of two entries, all that were appended
C14_Witness ==
  /\ last.op = "WriteTo" /\ last.a = "buffer" /\ last.ret = "ok"
  /\ buf # NoBytes /\ Len(log) >= 2 /\ Len(log) = appends

\* C15 as claimed, its middle part: dirty goes from true to false only by a
\* successful WriteTo (New and Open make another File).
C15_Original ==
  [][(dirty /\ ~dirty') =>
       \/ last'.op = "WriteTo" /\ last'.ret = "ok"
       \/ last'.op \in {"New", "Open"}]_vars

\* C15 as amended: a call that appends an entry leaves dirty true; dirty goes
\* from true to false only by a successful WriteTo or by a Revert, called or
\* made by Rewind, that puts back a wasMod that is false; a WriteTo whose
\* writer fails leaves the Database and both forms of the data key as they
\* were.
C15_Dirty ==
  [][/\ (/\ last'.op \notin {"Rewind", "Revert", "New", "Open"}
         /\ Len(log') = Len(log) + 1 /\ IsPrefix(log, log')) => dirty'
     /\ (dirty /\ ~dirty') =>
          \/ last'.op = "WriteTo" /\ last'.ret = "ok"
          \/ last'.op \in {"New", "Open"}
          \/ last'.op = "Revert" /\ saved # <<>> /\ ~wasMod
          \/ /\ last'.op = "Rewind" /\ last'.ret = "false"
             /\ saved # <<>> /\ ~wasMod
     /\ (last'.op = "WriteTo" /\ last'.ret = "error") =>
          (SameDB /\ UNCHANGED <<dataKeyEncrypted, dataKeyPlain>>)]_vars

\* after a WriteTo to a failing writer, the database still modified
C15_Witness ==
  /\ last.op = "WriteTo" /\ last.ret = "error"
  /\ dirty /\ Len(log) > 0

\* The operation codes tablesFromLog has a case for.
Ops == {opCreateTable, opDeleteTable, opRenameTable, opClearTable,
        opUpdateKey, opDeleteKey}

\* The bytes wf hold a log that Open reaches with accessKey: the envelope,
\* both blobs and the payload decode.
HoldsLog(wf, accessKey) ==
  /\ wf # NoBytes /\ wf.leaf = formatVersion
  /\ wf.key.k = accessKey /\ wf.data.k = wf.key.p
  /\ validSnappy(wf.data.p) /\ validJSON(decompress(wf.data.p))

storedLog(wf) == UnmarshalJSON(decompress(wf.data.p))

\* C16 as claimed: Open of bytes whose log has an entry with an operation
\* code outside Ops fails and gives no File: the caller keeps the one it had.
C16_Original ==
  [][(/\ last'.op = "Open" /\ HoldsLog(buf, last'.a)
      /\ \E i \in 1..Len(storedLog(buf)) : storedLog(buf)[i].Op \notin Ops)
       => (last'.ret # "ok" /\ SameDB)]_vars

\* C17 as claimed: whenever Open fails after the data key was decrypted, at
\* the decryption of the payload, its decompression or the decoding of the
\* log, the dataKey buffer is zeroed when Open is left.
C17_Original ==
  (last.op = "Open" /\ last.ret \in {"decrypt data", "panic", "decode data"})
    => last.b = Zeroed

\* C20 as claimed: Set(key, value) through a handle whose table is in the
\* index returns true exactly when the key was not in the table, appends
\* exactly one update entry for the key and the value, and after a Set with
\* the same arguments right before it leaves the content of the index as it
\* was.
C20_Original ==
  [][(last'.op = "Set" /\ last'.a \in DOMAIN tabs) =>
       /\ last'.ret = IF last'.b \in DOMAIN tabs[last'.a].m
                      THEN "false" ELSE "true"
       /\ Len(log') = Len(log) + 1 /\ IsPrefix(log, log')
       /\ LET e == log'[Len(log')]
          IN /\ e.Op = opUpdateKey /\ e.A = last'.a
             /\ e.B = last'.b /\ e.C = last'.c
       /\ Snapshot(tabs')[last'.a][last'.b] = last'.c
       /\ (/\ last.op = "Set" /\ last.a = last'.a
           /\ last.b = last'.b /\ last.c = last'.c)
            => Snapshot(tabs') = Snapshot(tabs)]_vars

\* C18: Table(name) returns a handle for name; when name is not in the index
\* it appends one create-table entry for name and adds an empty table, when
\* it is it changes nothing, and so a Table(name) right after a Table(name)
\* appends nothing. GetTable(name) changes nothing and reports whether name
\* is in the index.
C18_Table ==
  [][/\ last'.op = "Table" =>
          /\ last'.ret = "ok" /\ last'.a \in handles'
          /\ IF last'.a \notin DOMAIN tabs
             THEN /\ \E ts \in Stamps :
                       log' = Append(log, logEntry(opCreateTable, last'.a,
                                                   "", NoVal, ts))
                  /\ tabs' = MapPut(tabs, last'.a, EmptyTab)
                  /\ dirty' /\ UNCHANGED <<saved, wasMod>>
             ELSE SameDB
          /\ (last.op = "Table" /\ last.a = last'.a) => log' = log
     /\ last'.op = "GetTable" =>
          /\ SameDB
          /\ last'.ret = IF last'.a \in DOMAIN tabs THEN "true" ELSE "false"
          /\ last'.ret = "true" => last'.a \in handles']_vars

\* after a Table call for a table that was there: the log still ends with the
\* update a Set appended
C18_Witness ==
  /\ last.op = "Table" /\ last.a \in DOMAIN tabs
  /\ Len(log) > 0 /\ log[Len(log)].Op = opUpdateKey

\* C19: DeleteTable(name) on a table in the index returns true, appends one
\* delete-table entry for name and removes the table, and a GetTable(name)
\* right after reports it absent; on a name not in the index it returns false
\* and changes nothing, as does a DeleteTable(name) right after a
\* DeleteTable(name).
C19_DeleteTable ==
  [][/\ last'.op = "DeleteTable" =>
          IF last'.a \in DOMAIN tabs
          THEN /\ last'.ret = "true"
               /\ \E ts \in Stamps :
                    log' = Append(log, logEntry(opDeleteTable, last'.a,
                                                "", NoVal, ts))
               /\ tabs' = MapDel(tabs, last'.a)
               /\ dirty' /\ UNCHANGED <<saved, wasMod>>
          ELSE last'.ret = "false" /\ SameDB
     /\ (/\ last.op = "DeleteTable" /\ last.ret = "true"
         /\ last'.op = "GetTable" /\ last'.a = last.a) => last'.ret = "false"
     /\ (/\ last.op = "DeleteTable" /\ last'.op = "DeleteTable"
         /\ last'.a = last.a) => (last'.ret = "false" /\ log' = log)]_vars

\* after a GetTable that reported absent the table the last entry deleted
C19_Witness ==
  /\ last.op = "GetTable" /\ last.ret = "false"
  /\ Len(log) > 0 /\ log[Len(log)].Op = opDeleteTable
  /\ log[Len(log)].A = last.a

\* C21: Delete(key) through a handle whose table has the key returns true,
\* takes the key out of the table and appends one delete entry for it, so
\* that the table has one key less and a Get(key) right after reports false;
\* otherwise it returns false and changes nothing.
C21_Delete ==
  [][/\ last'.op = "Delete" =>
          LET tab == TabAt(tabs, last'.a)
          IN IF last'.b \in DOMAIN tab.m
             THEN /\ last'.ret = "true"
                  /\ \E ts \in Stamps :
                       log' = Append(log, logEntry(opDeleteKey, last'.a,
                                                   last'.b, NoVal, ts))
                  /\ DOMAIN tabs' = DOMAIN tabs
                  /\ \A n \in DOMAIN tabs \ {last'.a} : tabs'[n] = tabs[n]
                  /\ ~tabs'[last'.a].nil
                  /\ tabs'[last'.a].m = MapDel(tab.m, last'.b)
                  /\ Cardinality(DOMAIN tabs'[last'.a].m)
                       = Cardinality(DOMAIN tab.m) - 1
                  /\ dirty' /\ UNCHANGED <<saved, wasMod>>
             ELSE last'.ret = "false" /\ SameDB
     /\ (/\ last.op = "Delete" /\ last.ret = "true"
         /\ last'.op = "Get" /\ last'.a = last.a /\ last'.b = last.b)
          => last'.ret = "false"
     /\ (/\ last.op = "Delete" /\ last.ret = "true"
         /\ last'.op = "Len" /\ last'.a = last.a)
          => last'.ret = Cardinality(DOMAIN TabAt(tabs, last.a).m)]_vars

\* after a Get that reported absent the key the last entry deleted
C21_Witness ==
  /\ last.op = "Get" /\ last.ret = "false"
  /\ Len(log) > 0 /\ log[Len(log)].Op = opDeleteKey
  /\ log[Len(log)].A = last.a /\ log[Len(log)].B = last.b
  /\ last.a \in DOMAIN tabs

\* C22: Clear() through a handle whose table has keys empties the table and
\* appends one clear-table entry for it; the table stays in the index, so
\* that a GetTable right after reports it present and a Len reports 0, and
\* the other tables are as they were. Clear() on a table without keys, or
\* through a handle whose table is gone, changes nothing.
C22_Clear ==
  [][/\ last'.op = "Clear" =>
          IF DOMAIN TabAt(tabs, last'.a).m # {}
          THEN /\ \E ts \in Stamps :
                    log' = Append(log, logEntry(opClearTable, last'.a,
                                                "", NoVal, ts))
               /\ tabs' = MapPut(tabs, last'.a, EmptyTab)
               /\ last'.a \in DOMAIN tabs'
               /\ dirty' /\ UNCHANGED <<saved, wasMod>>
          ELSE SameDB
     /\ (/\ last.op = "Clear" /\ last.a \in DOMAIN tabs
         /\ last'.op = "GetTable" /\ last'.a = last.a) => last'.ret = "true"
     /\ (last.op = "Clear" /\ last'.op = "Len" /\ last'.a = last.a)
          => last'.ret = 0]_vars

\* after a Len that reported 0 for the table the last entry cleared, the
\* other table still with its key
C22_Witness ==
  /\ last.op = "Len" /\ last.ret = 0
  /\ Len(log) > 0 /\ log[Len(log)].Op = opClearTable
  /\ log[Len(log)].A = last.a /\ last.a \in DOMAIN tabs
  /\ \E n \in DOMAIN tabs : DOMAIN tabs[n].m # {}

\* C23: Rename(newName) with the handle's own name changes nothing. With
\* another name it appends one rename-table entry from the handle's name to
\* newName, leaves under newName the keys and values that were under the
\* handle's name, leaves the handle's name out of the index, and the handle
\* is one for newName: a Get through it right after finds what a Get through
\* the old name found before.
C23_Rename ==
  [][/\ last'.op = "Rename" =>
          IF last'.a = last'.b THEN SameDB
          ELSE /\ \E ts \in Stamps :
                    log' = Append(log, logEntry(opRenameTable, last'.a,
                                                last'.b, NoVal, ts))
               /\ last'.b \in DOMAIN tabs'
               /\ tabs'[last'.b] = TabAt(tabs, last'.a)
               /\ Snapshot(tabs')[last'.b]
                    = [k \in DOMAIN TabAt(tabs, last'.a).m |->
                         TabAt(tabs, last'.a).m[k].C]
               /\ last'.a \notin DOMAIN tabs'
               /\ last'.b \in handles'
               /\ dirty' /\ UNCHANGED <<saved, wasMod>>
     /\ (/\ last.op = "Rename" /\ last'.op = "Get" /\ last'.a = last.b)
          => last'.ret # "false" <=> last'.b \in DOMAIN TabAt(tabs, last.b).m
     /\ (/\ last.op = "Rename" /\ last.a # last.b
         /\ last'.op = "GetTable" /\ last'.a = last.a)
          => last'.ret = "false"]_vars

\* after a Get through the renamed handle that found the key the table had
\* under its old name
C23_Witness ==
  /\ last.op = "Get" /\ last.ret = "true"
  /\ Len(log) > 0 /\ log[Len(log)].Op = opRenameTable
  /\ log[Len(log)].B = last.a /\ log[Len(log)].A \notin DOMAIN tabs

\* C24: WriteTo leaves both forms of the data key, the log, saved, wasMod
\* and the index as they were, whatever the writer does; the envelope it
\* writes carries the File's encrypted data key as it is, and that key
\* changes only when New makes one or a successful Open reads one from the
\* bytes it opens.
C24_WriteToFrame ==
  [][/\ last'.op = "WriteTo" =>
          /\ UNCHANGED <<dataKeyEncrypted, dataKeyPlain, log, saved, wasMod,
                         tabs>>
          /\ last'.a = "buffer" => buf'.key = dataKeyEncrypted
     /\ dataKeyEncrypted' # dataKeyEncrypted =>
          \/ last'.op = "New" /\ dataKeyEncrypted'.k = last'.a
                              /\ dataKeyEncrypted'.p = dataKeyPlain'
          \/ last'.op = "Open" /\ last'.ret = "ok"
                               /\ dataKeyEncrypted' = buf.key]_vars

\* a second save in a row of a rewound File made under the other access key
C24_Witness ==
  /\ last.op = "WriteTo" /\ last.a = "buffer" /\ last.ret = "ok"
  /\ saved # <<>> /\ ~dirty
  /\ dataKeyEncrypted = encryptWithKey("K1", "D1", 1)
  /\ buf.key = dataKeyEncrypted /\ buf.data.n = 0

\* The table entry i of s names is in the index built from the entries
\* before it.
ExistsAt(s, i) == s[i].A \in DOMAIN tablesFromLog(SubSeq(s, 1, i - 1))

\* C25 as claimed: in every reachable log each update, delete, clear-table,
\* rename-table and delete-table entry names a table that exists at that
\* position when the log is replayed from the start.
C25_Original ==
  \A i \in 1..Len(log) :
    log[i].Op \in {opUpdateKey, opDeleteKey, opClearTable, opRenameTable,
                   opDeleteTable} => ExistsAt(log, i)

\* C26: New yields a File whose database has an empty log, no tables, an
\* empty saved and dirty false; a successful Open yields a File whose
\* database has the log held in the bytes, the index built from it, an
\* empty saved and dirty false, whatever the database of the File that
\* wrote the bytes was.
C26_FreshFile ==
  [][/\ last'.op = "New" =>
          /\ log' = <<>> /\ tabs' = EmptyMap /\ saved' = <<>>
          /\ ~dirty' /\ ~wasMod'
     /\ (last'.op = "Open" /\ last'.ret = "ok") =>
          /\ saved' = <<>> /\ ~dirty' /\ ~wasMod'
          /\ log' = storedLog(buf) /\ tabs' = tablesFromLog(log')]_vars

\* a File opened from the bytes a Rewound File wrote: its log is shorter
\* than the entries appended
C26_Witness ==
  /\ last.op = "Open" /\ last.ret = "ok"
  /\ saved = <<>> /\ ~dirty
  /\ Len(log) > 0 /\ Len(log) < appends

\* C27: the map Snapshot() returns has every table of the index, each with
\* its keys and their raw values as they are at the call, and the call
\* leaves the database as it was; no later call of the package changes the
\* map the caller holds, and the caller's changes of the map leave the
\* database as it was.
C27_Snapshot ==
  [][/\ last'.op = "Snapshot" =>
          /\ snap'.on /\ last'.ret = snap'.m
          /\ DOMAIN snap'.m = DOMAIN tabs
          /\ \A n \in DOMAIN tabs :
               /\ DOMAIN snap'.m[n] = DOMAIN tabs[n].m
               /\ \A k \in DOMAIN tabs[n].m : snap'.m[n][k] = tabs[n].m[k].C
          /\ SameDB
     /\ last'.op \notin {"Snapshot", "edit"} => snap' = snap
     /\ last'.op = "edit" => SameDB]_vars

\* the caller overwrote a value in the map it holds, and the database still
\* has the value the snapshot was taken with
C27_Witness ==
  /\ last.op = "edit" /\ snap.on
  /\ last.a \in DOMAIN snap.m /\ last.a \in DOMAIN tabs
  /\ last.b \in DOMAIN snap.m[last.a] /\ last.b \in DOMAIN tabs[last.a].m
  /\ snap.m[last.a][last.b] # tabs[last.a].m[last.b].C
  /\ log[Len(log)].Op = opUpdateKey

\* C28 as claimed, step by step: the log last persisted or loaded changes
\* only by a successful WriteTo, an Open or a New, so a call that is none of
\* these and has IsModified() false before it and after it, both times the
\* log being the one persisted, leaves the log as it was.
C28_Original ==
  [][(/\ ~dirty /\ ~dirty'
      /\ ~(last'.op = "WriteTo" /\ last'.ret = "ok")
      /\ last'.op \notin {"Open", "New"}) => log' = log]_vars

\* The calls that append to the log.
Appenders == {"Table", "DeleteTable", "Set", "Delete", "Clear", "Rename"}

\* C29: every call on a File other than Rewind and Revert keeps each entry
\* of the log at its position and as it is and adds at most one entry after
\* them; only Table, DeleteTable, Set, Delete, Clear and Rename add one, and
\* a Set of a key that has a value adds an entry without touching the
\* earlier one. (New and Open give another File.)
C29_AppendOnly ==
  [][last'.op \notin {"Rewind", "Revert", "New", "Open"} =>
       /\ IsPrefix(log, log')
       /\ \A i \in 1..Len(log) : log'[i] = log[i]
       /\ Len(log') <= Len(log) + 1
       /\ Len(log') = Len(log) + 1 => (last'.op \in Appenders /\ dirty')
       /\ last'.op \notin Appenders => log' = log]_vars

\* after a Set of a key that had a value: the log holds both update entries
C29_Witness ==
  /\ last.op = "Set" /\ last.ret = "false" /\ Len(log) >= 3
  /\ \E i \in 1..(Len(log) - 1) :
       /\ log[i].Op = opUpdateKey /\ log[i].A = last.a /\ log[i].B = last.b
       /\ log[i].C # last.c
  /\ log[Len(log)] = logEntry(opUpdateKey, last.a, last.b, last.c,
                              log[Len(log)].TS)

\* The calls that read through a handle, and all the calls that read.
TableReads == {"Get", "Keys", "AsMap", "Len"}
ReadOps    == {"IsModified", "TableNames", "GetTable", "Time"} \cup TableReads

\* What a call c that reads through a handle returns for an empty table.
emptyResult(c) ==
  CASE c.op = "Get"   -> "false"
    [] c.op = "Keys"  -> {}
    [] c.op = "AsMap" -> EmptyMap
    [] c.op = "Len"   -> 0

\* C30: IsModified, TableNames, GetTable, Time with Snapshot, Get, Keys,
\* AsMap and Len leave log, index, saved, wasMod and dirty as they are in
\* every state, Clean or Rewound, and report what the index holds; called
\* through a handle whose table is missing or nil, Get, Keys, AsMap and Len
\* return what they return for an empty table.
C30_ReadOnly ==
  [][last'.op \in ReadOps =>
       /\ SameDB
       /\ last'.op = "IsModified" => last'.ret = (IF dirty THEN "true" ELSE "false")
       /\ last'.op = "TableNames" => last'.ret = DOMAIN tabs
       /\ last'.op = "Time" =>
            (last'.t = Time(log) /\ clk'.vis = Snapshot(tabs))
       /\ last'.op \in TableReads =>
            LET tab == TabAt(tabs, last'.a)
            IN /\ (last'.a \notin DOMAIN tabs \/ tab.nil)
                    => last'.ret = emptyResult(last')
               /\ last'.op = "Len" => last'.ret = Cardinality(DOMAIN tab.m)
               /\ last'.op = "Keys" => last'.ret = DOMAIN tab.m
               /\ last'.op = "Get" =>
                    (last'.ret = "false" <=> last'.b \notin DOMAIN tab.m)
               /\ (last'.op = "AsMap" /\ last'.b # "panic") =>
                    last'.ret = [k \in DOMAIN tab.m |-> tab.m[k].C]]_vars

\* after a Keys through a handle whose table a Rewind took away, the
\* database still rewound and modified
C30_Witness ==
  /\ last.op = "Keys" /\ last.ret = {}
  /\ last.a \in handles /\ last.a \notin DOMAIN tabs
  /\ saved # <<>> /\ dirty /\ Len(saved) = MaxAppends

\* C31: Rename(newName) with newName other than the handle's name leaves
\* every table under a third name in the index with its keys and values,
\* adds and removes no third name, puts under newName the content that was
\* under the handle's name in place of what newName had, and leaves the
\* index equal to the replay of the log.
C31_RenameFrame ==
  [][(last'.op = "Rename" /\ last'.a # last'.b) =>
       /\ DOMAIN tabs' \ {last'.a, last'.b} = DOMAIN tabs \ {last'.a, last'.b}
       /\ \A n \in DOMAIN tabs \ {last'.a, last'.b} :
            tabs'[n] = tabs[n] /\ Snapshot(tabs')[n] = Snapshot(tabs)[n]
       /\ last'.b \in DOMAIN tabs =>
            /\ tabs'[last'.b] = TabAt(tabs, last'.a)
            /\ \A k \in DOMAIN tabs[last'.b].m :
                 k \notin DOMAIN TabAt(tabs, last'.a).m
                   => k \notin DOMAIN tabs'[last'.b].m
       /\ tabs' = tablesFromLog(log')]_vars

\* after a Rename of a to b, where b had another value for the key: b has
\* the value a had and c, the third table, has its key
C31_Witness ==
  /\ last.op = "Rename" /\ last.a = "a" /\ last.b = "b"
  /\ "c" \in DOMAIN tabs /\ "k" \in DOMAIN tabs["c"].m
  /\ "a" \notin DOMAIN tabs
  /\ "k" \in DOMAIN tabs["b"].m /\ tabs["b"].m["k"].A = "a"
  /\ \E i \in 1..Len(log) :
       /\ log[i].Op = opUpdateKey /\ log[i].A = "b" /\ log[i].B = "k"
       /\ log[i].C # tabs["b"].m["k"].C

====
